---- MODULE Spec2Model ----
(***************************************************************************)
(* Model of HW1/1a/wc0_fixed.py: the word frequency pipeline               *)
(*   normalize_text -> clean_all_words -> filter_stopwords ->              *)
(*   count_word_frequencies -> sort_words_by_frequency -> get_top_words -> *)
(*   build_result_dict                                                     *)
(* A Python str is a sequence of one-character strings.  A Python dict is  *)
(* a sequence of <<key, value>> pairs in insertion order (the order        *)
(* dict.items() and dict.values() iterate in).                             *)
(***************************************************************************)
EXTENDS Integers, Sequences, FiniteSets

VARIABLES text, config, status, result, cleaned_words, filtered_words, runs

vars == <<text, config, status, result, cleaned_words, filtered_words, runs>>

---------------------------------------------------------------------------
(* Bounds of the model *)

\* longest input text, in characters
MaxLen == 5
\* largest result limit tried besides the default one
MaxTopN == 1
\* most negative (malformed) result limit tried is -MaxNeg
MaxNeg == 1
\* number of successive process_text calls on the same text and config
MaxRuns == 2

\* characters the input texts are made of: an upper-case letter whose lower
\* case is the stopword "a", two other letters, a configured punctuation
\* mark, a blank
Alphabet == {"A", "b", "c", ".", " "}

Texts == UNION {[1..n -> Alphabet] : n \in 0..MaxLen}

---------------------------------------------------------------------------
(* CONFIG *)

stopwords == {<<"t","h","e">>, <<"a">>, <<"a","n">>, <<"a","n","d">>, <<"o","r">>,
              <<"b","u","t">>, <<"i","n">>, <<"o","n">>, <<"a","t">>, <<"t","o">>,
              <<"f","o","r">>, <<"o","f">>, <<"i","s">>, <<"w","a","s">>,
              <<"a","r","e">>, <<"w","e","r","e">>, <<"b","e">>,
              <<"b","e","e","n">>, <<"w","i","t","h">>}

punctuation == {".", ",", "!", "?", ";", ":", "\"", "(", ")", "[", "]"}

top_n == 10

CONFIG == [stopwords |-> stopwords, punctuation |-> punctuation, top_n |-> top_n]

\* the result limits a caller passes: the default, small ones, negative ones
TopNs == ((0 - MaxNeg)..MaxTopN) \cup {top_n}

---------------------------------------------------------------------------
(* Python built-ins used by the pipeline *)

\* str.isspace() of one character, as str.split() without arguments uses it
Whitespace == {" ", "\t", "\n", "\r", "\f"}

UpperCase == <<"A","B","C","D","E","F","G","H","I","J","K","L","M",
               "N","O","P","Q","R","S","T","U","V","W","X","Y","Z">>
LowerCase == <<"a","b","c","d","e","f","g","h","i","j","k","l","m",
               "n","o","p","q","r","s","t","u","v","w","x","y","z">>

lower_char(c) ==
    IF \E i \in DOMAIN UpperCase : UpperCase[i] = c
    THEN LowerCase[CHOOSE i \in DOMAIN UpperCase : UpperCase[i] = c]
    ELSE c

\* str.lower()
lower(s) == [i \in DOMAIN s |-> lower_char(s[i])]

\* str.split(): maximal runs of non-whitespace characters, in order
RECURSIVE SplitFrom(_, _, _)
SplitFrom(s, i, cur) ==
    IF i > Len(s)
    THEN IF cur = <<>> THEN <<>> ELSE <<cur>>
    ELSE IF s[i] \in Whitespace
         THEN IF cur = <<>>
              THEN SplitFrom(s, i + 1, <<>>)
              ELSE <<cur>> \o SplitFrom(s, i + 1, <<>>)
         ELSE SplitFrom(s, i + 1, Append(cur, s[i]))

split(s) == SplitFrom(s, 1, <<>>)

\* str.lstrip(chars), str.rstrip(chars), str.strip(chars)
RECURSIVE lstrip(_, _)
lstrip(s, chars) ==
    IF s # <<>> /\ Head(s) \in chars THEN lstrip(Tail(s), chars) ELSE s

RECURSIVE rstrip(_, _)
rstrip(s, chars) ==
    IF s # <<>> /\ s[Len(s)] \in chars
    THEN rstrip(SubSeq(s, 1, Len(s) - 1), chars)
    ELSE s

strip(s, chars) == rstrip(lstrip(s, chars), chars)

\* seq[:n]
SliceTo(seq, n) ==
    IF n >= 0
    THEN SubSeq(seq, 1, IF n < Len(seq) THEN n ELSE Len(seq))
    ELSE SubSeq(seq, 1, IF Len(seq) + n > 0 THEN Len(seq) + n ELSE 0)

\* sum(seq of integers)
RECURSIVE sum(_)
sum(seq) == IF seq = <<>> THEN 0 ELSE Head(seq) + sum(Tail(seq))

\* dict.items(), dict.values(), key in dict, dict.get(key, default), d[key] = v
items(d) == d
values(d) == [i \in DOMAIN d |-> d[i][2]]
HasKey(d, k) == \E i \in DOMAIN d : d[i][1] = k
get(d, k, default) ==
    IF HasKey(d, k) THEN d[CHOOSE i \in DOMAIN d : d[i][1] = k][2] ELSE default
setitem(d, k, v) ==
    IF HasKey(d, k)
    THEN [i \in DOMAIN d |-> IF d[i][1] = k THEN <<k, v>> ELSE d[i]]
    ELSE Append(d, <<k, v>>)

\* sorted(seq, key = second component, reverse = True): stable, so entries
\* with equal keys keep their original relative order
RECURSIVE InsertDesc(_, _)
InsertDesc(sorted, e) ==
    IF sorted = <<>> THEN <<e>>
    ELSE IF Head(sorted)[2] >= e[2]
         THEN <<Head(sorted)>> \o InsertDesc(Tail(sorted), e)
         ELSE <<e>> \o sorted

RECURSIVE SortedDesc(_, _)
SortedDesc(acc, rest) ==
    IF rest = <<>> THEN acc
    ELSE SortedDesc(InsertDesc(acc, Head(rest)), Tail(rest))

---------------------------------------------------------------------------
(* Model functions of wc0_fixed.py *)

\* bug: only the leading punctuation is removed
clean_word_lstrip(word, punct) == lstrip(word, punct)

clean_word(word, punct) == strip(word, punct)

\* bug: the text is split without being lowercased
normalize_text_nolower(t) == split(t)

normalize_text(t) == split(lower(t))

RECURSIVE FilterSeq(_, _)
FilterSeq(words, stop) ==
    IF words = <<>> THEN <<>>
    ELSE IF Head(words) # <<>> /\ Head(words) \notin stop
         THEN <<Head(words)>> \o FilterSeq(Tail(words), stop)
         ELSE FilterSeq(Tail(words), stop)

\* bug: only the empty words are dropped, the stopwords stay
filter_stopwords_keep(words, stop) == SelectSeq(words, LAMBDA w : w # <<>>)

filter_stopwords(words, stop) == FilterSeq(words, stop)

RECURSIVE CountInto(_, _)
CountInto(counts, words) ==
    IF words = <<>> THEN counts
    ELSE CountInto(setitem(counts, Head(words), get(counts, Head(words), 0) + 1),
                   Tail(words))

\* bug: every occurrence sets the count to 1 instead of incrementing it
RECURSIVE MarkInto(_, _)
MarkInto(counts, words) ==
    IF words = <<>> THEN counts
    ELSE MarkInto(setitem(counts, Head(words), 1), Tail(words))

count_word_frequencies_noinc(words) == MarkInto(<<>>, words)

\* bug: the counter is module-level state that outlives the call
count_word_frequencies_global(words) == CountInto(result.counts, words)

count_word_frequencies(words) == CountInto(<<>>, words)

\* bug: the items are returned in dict order, unsorted
sort_words_by_frequency_unsorted(counts) == items(counts)

\* bug: sorted ascending then reversed, which reverses the order of ties
RECURSIVE InsertDescStrict(_, _)
InsertDescStrict(sorted, e) ==
    IF sorted = <<>> THEN <<e>>
    ELSE IF Head(sorted)[2] > e[2]
         THEN <<Head(sorted)>> \o InsertDescStrict(Tail(sorted), e)
         ELSE <<e>> \o sorted

RECURSIVE SortedDescStrict(_, _)
SortedDescStrict(acc, rest) ==
    IF rest = <<>> THEN acc
    ELSE SortedDescStrict(InsertDescStrict(acc, Head(rest)), Tail(rest))

sort_words_by_frequency_reversed(counts) == SortedDescStrict(<<>>, items(counts))

sort_words_by_frequency(counts) == SortedDesc(<<>>, items(counts))

get_top_words(sorted_words, n) == SliceTo(sorted_words, n)

RECURSIVE CleanInto(_, _, _)
CleanInto(cleaned, words, punct) ==
    IF words = <<>> THEN cleaned
    ELSE IF clean_word(Head(words), punct) # <<>>
         THEN CleanInto(Append(cleaned, clean_word(Head(words), punct)), Tail(words), punct)
         ELSE CleanInto(cleaned, Tail(words), punct)

clean_all_words(words, punct) == CleanInto(<<>>, words, punct)

\* bug: the total is the number of keys instead of the sum of the counts
build_result_dict_len(counts, top_words) ==
    [counts |-> counts,
     top_words |-> top_words,
     total_words |-> Len(counts),
     unique_words |-> Len(counts)]

build_result_dict(counts, top_words) ==
    [counts |-> counts,
     top_words |-> top_words,
     total_words |-> sum(values(counts)),
     unique_words |-> Len(counts)]

---------------------------------------------------------------------------
(* State machine: a caller holds a text and a configuration and calls      *)
(* process_text on them, up to MaxRuns times                               *)

NoResult == [counts |-> <<>>, top_words |-> <<>>, total_words |-> 0, unique_words |-> 0]

Init ==
    /\ text \in Texts
    /\ config \in {[CONFIG EXCEPT !.top_n = n] : n \in TopNs}
    /\ status = "idle"
    /\ result = NoResult
    /\ cleaned_words = <<>>
    /\ filtered_words = <<>>
    /\ runs = 0

process_text ==
    /\ runs < MaxRuns
    /\ LET words == normalize_text(text)
           cleaned == clean_all_words(words, config.punctuation)
           filtered == filter_stopwords(cleaned, config.stopwords)
           counts == count_word_frequencies(filtered)
           sorted_words == sort_words_by_frequency(counts)
           top_words == get_top_words(sorted_words, config.top_n)
           res == build_result_dict(counts, top_words)
       IN /\ cleaned_words' = cleaned
          /\ filtered_words' = filtered
          /\ result' = res
    /\ status' = "returned"
    /\ runs' = runs + 1
    /\ UNCHANGED <<text, config>>

Next == process_text

Spec == Init /\ [][Next]_vars

---------------------------------------------------------------------------
(* Properties *)

Returned == status = "returned"

\* index of the first occurrence of w in seq
FirstIndex(seq, w) == CHOOSE i \in DOMAIN seq : seq[i] = w /\ \A j \in 1..(i - 1) : seq[j] # w

\* the entries of the FrequencyMap that are not in the RankedList
LeftOut == {i \in DOMAIN result.counts :
               \A j \in DOMAIN result.top_words : result.top_words[j] # result.counts[i]}

\* the raw words of the text as written, before lowercasing and cleaning
RawWords == split(text)

IsStopwordInDisguise(w) == clean_word(lower(w), config.punctuation) \in config.stopwords

\* C1: total_words of the returned Result is the length of the filtered
\* token sequence (after cleaning and stopword filtering), not of the
\* sequence before filtering.
C1_TotalIsFilteredCount ==
    Returned => result.total_words = Len(filtered_words)

C1_Witness ==
    /\ Returned
    /\ Len(filtered_words) >= 2
    /\ Len(cleaned_words) > Len(filtered_words)
    /\ result.unique_words < Len(filtered_words)

\* C2: top_words is sorted by count non-increasing, and no entry of counts
\* left out of top_words has a count greater than a count inside top_words.
C2_RankCorrect ==
    Returned =>
        /\ \A i, j \in DOMAIN result.top_words :
               i < j => result.top_words[i][2] >= result.top_words[j][2]
        /\ \A i \in LeftOut : \A j \in DOMAIN result.top_words :
               result.counts[i][2] <= result.top_words[j][2]

C2_Witness ==
    /\ Returned
    /\ result.top_words # <<>>
    /\ LeftOut # {}
    /\ result.counts[1][2] < result.top_words[1][2]

\* C3 (as claimed): the length of top_words is at most top_n and at most
\* unique_words, for every text and configuration.
C3_LengthWithinLimit ==
    Returned =>
        /\ Len(result.top_words) <= config.top_n
        /\ Len(result.top_words) <= result.unique_words

\* C4 (as claimed): with a negative top_n, process_text fails with a
\* configuration error instead of returning a Result.
C4_FailFast ==
    (runs > 0 /\ config.top_n < 0) => status = "raised"

\* C5: no stopword is a key of counts, and no key is a stopword written in
\* upper case or with configured punctuation at its edges.
C5_NoStopwordKeys ==
    Returned =>
        \A i \in DOMAIN result.counts :
            /\ result.counts[i][1] \notin config.stopwords
            /\ ~IsStopwordInDisguise(result.counts[i][1])

C5_Witness ==
    /\ Returned
    /\ result.counts # <<>>
    /\ \E i \in DOMAIN RawWords :
           /\ RawWords[i] \notin config.stopwords
           /\ lower(RawWords[i]) # RawWords[i]
           /\ clean_word(lower(RawWords[i]), config.punctuation) # lower(RawWords[i])
           /\ IsStopwordInDisguise(RawWords[i])

IsToken(w) ==
    /\ w # <<>>
    /\ w[1] \notin config.punctuation
    /\ w[Len(w)] \notin config.punctuation

\* C6: every token of the tokenizer's output, and every key of counts, is
\* non-empty with no configured punctuation as first or last character;
\* exactly the words made only of configured punctuation are discarded.
C6_TokensClean ==
    Returned =>
        /\ \A i \in DOMAIN cleaned_words : IsToken(cleaned_words[i])
        /\ \A i \in DOMAIN result.counts : IsToken(result.counts[i][1])
        /\ Len(cleaned_words) =
               Cardinality({i \in DOMAIN RawWords :
                               \E k \in DOMAIN RawWords[i] :
                                   RawWords[i][k] \notin config.punctuation})

C6_Witness ==
    /\ Returned
    /\ \E i \in DOMAIN RawWords :
           /\ RawWords[i][Len(RawWords[i])] \in config.punctuation
           /\ \E k \in DOMAIN RawWords[i] : RawWords[i][k] \notin config.punctuation
    /\ \E i \in DOMAIN RawWords :
           \A k \in DOMAIN RawWords[i] : RawWords[i][k] \in config.punctuation
    /\ result.counts # <<>>

\* C7: the counts' values sum to total_words, unique_words is the number of
\* distinct keys, and every count is a positive integer.
C7_CountsConsistent ==
    Returned =>
        /\ sum(values(result.counts)) = result.total_words
        /\ result.unique_words = Cardinality({result.counts[i][1] : i \in DOMAIN result.counts})
        /\ \A i \in DOMAIN result.counts : result.counts[i][2] \in Nat \ {0}

C7_Witness ==
    /\ Returned
    /\ result.unique_words >= 2
    /\ result.total_words > result.unique_words

\* C8: a further run on the same text and configuration returns the same
\* Result, and no run changes the text or the configuration.
C8_Idempotent ==
    [][/\ config' = config
       /\ text' = text
       /\ runs >= 1 => (result' = result /\ status' = status)]_vars

C8_Witness ==
    /\ runs >= 2
    /\ Returned
    /\ result.unique_words >= 2

AllStopwords == \A i \in DOMAIN cleaned_words : cleaned_words[i] \in config.stopwords

\* C9: when every cleaned token is a stopword (empty text, blank or
\* punctuation-only text, stopwords only), process_text returns, without
\* raising, the Result with no counts, no top words and zero totals.
C9_EmptyResult ==
    (runs > 0 /\ AllStopwords) =>
        /\ status = "returned"
        /\ result = [counts |-> <<>>, top_words |-> <<>>,
                     total_words |-> 0, unique_words |-> 0]

C9_Witness ==
    /\ Returned
    /\ Len(cleaned_words) >= 2
    /\ AllStopwords

\* C10: entries of top_words with equal counts are in the order of their
\* tokens' first occurrence in the filtered token sequence, and an entry
\* left out of top_words that ties with one inside first occurs after it.
C10_TieBreak ==
    Returned =>
        /\ \A i, j \in DOMAIN result.top_words :
               (i < j /\ result.top_words[i][2] = result.top_words[j][2]) =>
                   FirstIndex(filtered_words, result.top_words[i][1])
                       < FirstIndex(filtered_words, result.top_words[j][1])
        /\ \A i \in LeftOut : \A j \in DOMAIN result.top_words :
               result.counts[i][2] = result.top_words[j][2] =>
                   FirstIndex(filtered_words, result.top_words[j][1])
                       < FirstIndex(filtered_words, result.counts[i][1])

C10_Witness ==
    /\ Returned
    /\ Len(result.top_words) >= 2
    /\ result.top_words[1][2] = result.top_words[2][2]
    /\ result.top_words[1][1] # result.top_words[2][1]

====
